---- MODULE Spec2Model ----
(***************************************************************************)
(* Cycle-accurate model of the SPI serializer core of src/spi.py           *)
(* (class SPI): clock divider, init latch, transfer FSM and the shift /    *)
(* counter datapath.  One step of the model is one rising edge of the      *)
(* system clock: every register takes the value its synchronous            *)
(* statements compute from the values before the edge.  One-bit signals    *)
(* are BOOLEAN (TRUE = level 1); wider signals are naturals kept within    *)
(* their declared width.                                                   *)
(***************************************************************************)
EXTENDS Naturals, Sequences

\* SPIParams of the instance under verification (src/spi.py:5-9).  channels
\* and data_width are fixed; clk_width is the largest clock divisor the core
\* is asked to be built with, the smallest being 1.
channels == 2
data_width == 2
clk_width == 2

VARIABLES
    \* the parameters the constructor was called with
    params,
    \* registers of the core
    state, bits, word_counter, sr_data, clk_counter, sync_init, initialized,
    \* observers of the current transfer (no effect on the core)
    mode, loaded, sent, rises, words, ticks, paced, init_done, dwell

regs == <<state, bits, word_counter, sr_data, clk_counter, sync_init, initialized>>
obs  == <<mode, loaded, sent, rises, words, ticks, paced, init_done, dwell>>
vars == <<regs, obs, params>>

----------------------------------------------------------------------------
\* Arithmetic helpers.

RECURSIVE Pow2(_)
Pow2(n) == IF n = 0 THEN 1 ELSE 2 * Pow2(n - 1)

\* migen bits_for(n): bits needed to hold the unsigned value n.
RECURSIVE bits_for(_)
bits_for(n) == IF n < 2 THEN 1 ELSE 1 + bits_for(n \div 2)

\* Width of dataSPI and of sr_data.
SrWidth == data_width * channels

Data == 0 .. (Pow2(SrWidth) - 1)

\* The parameter tuples SPI(pads, params) is called with: the clock divisor
\* is 1 (the smallest the specification allows) or clk_width.
SPIParams == [channels : {channels}, data_width : {data_width},
              clk_width : {1, clk_width}]

\* migen Signal(max=m): a signal holding 0 .. m-1.  The constructor turns
\* the exclusive bound into an inclusive one and asserts 0 < m - 1, so it
\* raises AssertionError for m = 1.
SignalMax(m) == 0 < m - 1

\* SPI.__init__ returns a core iff none of its statements raises: the three
\* Signal(max=...) declarations and the assert on clk_width.
Constructed(prm) ==
    /\ SignalMax(prm.clk_width)
    /\ SignalMax(prm.data_width * prm.channels + 1)
    /\ SignalMax(prm.channels + 1)
    /\ prm.clk_width >= 1

FsmStates == {"IDLE", "SETUP", "HOLD", "DELAY", "BUSY_LOW", "BUSY_HIGH"}

\* The registers as a record r, the form the combinational and synchronous
\* operators below take them in.  The inputs of a cycle are a record p of
\* the levels of start, init, busy and dataSPI during that cycle.
R == [state |-> state, bits |-> bits, word_counter |-> word_counter,
      sr_data |-> sr_data, clk_counter |-> clk_counter,
      sync_init |-> sync_init, initialized |-> initialized]

Pins(d) == [start : BOOLEAN, init : BOOLEAN, busy : BOOLEAN, dataSPI : {d}]

----------------------------------------------------------------------------
\* Combinational logic.

clk_cnt_done(r) == r.clk_counter = 0

init_latch(r, p) == p.init \/ (r.sync_init /\ ~r.initialized)

\* fsm.ce: the FSM and the datapath advance on divider ticks only.
fsm_ce(r) == clk_cnt_done(r)

\* Variant of next_state: a start pulse in BUSY_HIGH restarts the word.
next_state_retrigger(r, p) ==
    CASE r.state = "IDLE"      -> IF p.start \/ p.init THEN "SETUP" ELSE "IDLE"
      [] r.state = "SETUP"     -> IF r.bits = 0 THEN "DELAY" ELSE "HOLD"
      [] r.state = "HOLD"      -> "SETUP"
      [] r.state = "DELAY"     -> "BUSY_LOW"
      [] r.state = "BUSY_LOW"  -> IF ~p.busy THEN "BUSY_HIGH" ELSE "BUSY_LOW"
      [] r.state = "BUSY_HIGH" -> IF p.start THEN "SETUP"
                                  ELSE IF p.busy /\ r.word_counter = 0 THEN "IDLE"
                                  ELSE IF p.busy THEN "SETUP"
                                  ELSE "BUSY_HIGH"

\* Variant of next_state: every SETUP is followed by a HOLD, the word ends
\* after the HOLD of its last bit.
next_state_full_pairs(r, p) ==
    CASE r.state = "IDLE"      -> IF p.start \/ p.init THEN "SETUP" ELSE "IDLE"
      [] r.state = "SETUP"     -> "HOLD"
      [] r.state = "HOLD"      -> IF r.bits = 0 THEN "DELAY" ELSE "SETUP"
      [] r.state = "DELAY"     -> "BUSY_LOW"
      [] r.state = "BUSY_LOW"  -> IF ~p.busy THEN "BUSY_HIGH" ELSE "BUSY_LOW"
      [] r.state = "BUSY_HIGH" -> IF p.busy /\ r.word_counter = 0 THEN "IDLE"
                                  ELSE IF p.busy THEN "SETUP"
                                  ELSE "BUSY_HIGH"

\* Variant of next_state: BUSY_LOW left on busy high (polarity swapped).
next_state_busy_swapped(r, p) ==
    CASE r.state = "IDLE"      -> IF p.start \/ p.init THEN "SETUP" ELSE "IDLE"
      [] r.state = "SETUP"     -> IF r.bits = 0 THEN "DELAY" ELSE "HOLD"
      [] r.state = "HOLD"      -> "SETUP"
      [] r.state = "DELAY"     -> "BUSY_LOW"
      [] r.state = "BUSY_LOW"  -> IF p.busy THEN "BUSY_HIGH" ELSE "BUSY_LOW"
      [] r.state = "BUSY_HIGH" -> IF p.busy /\ r.word_counter = 0 THEN "IDLE"
                                  ELSE IF p.busy THEN "SETUP"
                                  ELSE "BUSY_HIGH"

\* Next state selected by the fsm.act bodies.
next_state(r, p) ==
    CASE r.state = "IDLE"      -> IF p.start \/ p.init THEN "SETUP" ELSE "IDLE"
      [] r.state = "SETUP"     -> IF r.bits = 0 THEN "DELAY" ELSE "HOLD"
      [] r.state = "HOLD"      -> "SETUP"
      [] r.state = "DELAY"     -> "BUSY_LOW"
      [] r.state = "BUSY_LOW"  -> IF ~p.busy THEN "BUSY_HIGH" ELSE "BUSY_LOW"
      [] r.state = "BUSY_HIGH" -> IF p.busy /\ r.word_counter = 0 THEN "IDLE"
                                  ELSE IF p.busy THEN "SETUP"
                                  ELSE "BUSY_HIGH"

\* Variant of cnt_load: DELAY requests a reload as SETUP and HOLD do.
cnt_load_in_delay(r, p) ==
    \/ r.state = "IDLE" /\ (p.start \/ p.init)
    \/ r.state = "SETUP"
    \/ r.state = "HOLD"
    \/ r.state = "DELAY"
    \/ r.state = "BUSY_HIGH" /\ p.busy /\ ~(r.word_counter = 0)

cnt_load(r, p) ==
    \/ r.state = "IDLE" /\ (p.start \/ p.init)
    \/ r.state = "SETUP"
    \/ r.state = "HOLD"
    \/ r.state = "BUSY_HIGH" /\ p.busy /\ ~(r.word_counter = 0)

data_load(r, p) == r.state = "IDLE" /\ (p.start \/ p.init)

ongoing(r, s) == r.state = s

before_leaving(r, p, s) == r.state = s /\ next_state(r, p) # s

\* Variant of syncr: chip-select released in DELAY already.
syncr_no_delay(r) == ~(r.state \in {"SETUP", "HOLD"})

\* Variant of syncr: left undriven in BUSY_HIGH, the pin falls to 0.
syncr_busy_high_low(r) == ~(r.state \in {"SETUP", "HOLD", "DELAY", "BUSY_HIGH"})

\* Variant of sdi: least significant bit first (sr_data[0]).
sdi_lsb_first(r) == r.sr_data % 2

\* Variant of ready: raised already while waiting for busy to return high.
ready_early(r) == r.state \in {"IDLE", "BUSY_HIGH"}

\* Output pins.  syncr is driven in every state but BUSY_HIGH, where it
\* takes its reset level 1 (src/pads.py:66).
ready(r) == r.state = "IDLE"

syncr(r) == ~(r.state \in {"SETUP", "HOLD", "DELAY"})

sclk(r) == r.state = "SETUP"

\* pads.sdi = sr_data[-1], the most significant bit of the shift register.
sdi(r) == r.sr_data \div Pow2(SrWidth - 1)

----------------------------------------------------------------------------
\* Synchronous logic: the value each register takes at the clock edge.

\* Clock divider.  At a tick the counter reloads when the FSM requests it
\* and otherwise stays at 0; between ticks it counts down.
clk_counter_next(r, p) ==
    IF clk_cnt_done(r)
    THEN IF cnt_load(r, p) THEN params.clk_width - 1 ELSE r.clk_counter
    ELSE (r.clk_counter + Pow2(bits_for(params.clk_width - 1)) - 1)
             % Pow2(bits_for(params.clk_width - 1))

\* Sticky init flip-flop, set on any cycle init is asserted (not gated by ce).
sync_init_next(r, p) == IF p.init THEN TRUE ELSE r.sync_init

\* Variant of state_next: the FSM without its clock enable.
state_next_ungated(r, p) == next_state(r, p)

\* FSM state register behind the clock enable.
state_next(r, p) == IF fsm_ce(r) THEN next_state(r, p) ELSE r.state

\* Cat(0, sr_data[:-1]): one bit towards the MSB, 0 shifted in, MSB dropped.
shift_msb_first(x) == (2 * x) % Pow2(SrWidth)

\* dataSPI[:data_width] << data_width*(channels-1)
init_word(d) ==
    ((d % Pow2(data_width)) * Pow2(data_width * (channels - 1))) % Pow2(SrWidth)

\* Variant of bits_next: a word restarts at data_width instead of
\* data_width - 1.
bits_next_one_more(r, p) ==
    LET m  == Pow2(bits_for(data_width * channels))
        b1 == IF before_leaving(r, p, "HOLD") THEN (r.bits + m - 1) % m ELSE r.bits
        b2 == IF ongoing(r, "IDLE") THEN data_width ELSE b1
        b3 == IF before_leaving(r, p, "BUSY_HIGH") THEN data_width ELSE b2
    IN  IF fsm_ce(r) THEN b3 ELSE r.bits

\* The statements of the gated sync block apply in source order: a later
\* assignment to the same register overrides an earlier one.
bits_next(r, p) ==
    LET m  == Pow2(bits_for(data_width * channels))
        b1 == IF before_leaving(r, p, "HOLD") THEN (r.bits + m - 1) % m ELSE r.bits
        b2 == IF ongoing(r, "IDLE") THEN data_width - 1 ELSE b1
        b3 == IF before_leaving(r, p, "BUSY_HIGH") THEN data_width - 1 ELSE b2
    IN  IF fsm_ce(r) THEN b3 ELSE r.bits

\* Variant of word_counter_next: every transfer counts channels words.
word_counter_next_always_full(r, p) ==
    LET m  == Pow2(bits_for(channels))
        w1 == IF ongoing(r, "IDLE") THEN channels ELSE r.word_counter
        w2 == IF ongoing(r, "DELAY") THEN (r.word_counter + m - 1) % m ELSE w1
    IN  IF fsm_ce(r) THEN w2 ELSE r.word_counter

word_counter_next(r, p) ==
    LET m  == Pow2(bits_for(channels))
        w1 == IF ongoing(r, "IDLE")
              THEN IF init_latch(r, p) /\ ~r.initialized THEN 1 ELSE channels
              ELSE r.word_counter
        w2 == IF ongoing(r, "DELAY") THEN (r.word_counter + m - 1) % m ELSE w1
    IN  IF fsm_ce(r) THEN w2 ELSE r.word_counter

\* Variant of sr_data_next: the buffer follows the data latch on every tick
\* in IDLE, not only on the tick that accepts a request.
sr_data_next_load_idle(r, p) ==
    LET s1 == IF before_leaving(r, p, "HOLD") THEN shift_msb_first(r.sr_data)
              ELSE r.sr_data
        s2 == IF ongoing(r, "DELAY") THEN shift_msb_first(r.sr_data) ELSE s1
        s3 == IF ongoing(r, "IDLE")
              THEN IF init_latch(r, p) THEN init_word(p.dataSPI) ELSE p.dataSPI
              ELSE s2
    IN  IF fsm_ce(r) THEN s3 ELSE r.sr_data

\* Variant of sr_data_next: the buffer shifts on leaving SETUP, not HOLD.
sr_data_next_shift_on_setup(r, p) ==
    LET s1 == IF before_leaving(r, p, "SETUP") THEN shift_msb_first(r.sr_data)
              ELSE r.sr_data
        s2 == IF ongoing(r, "DELAY") THEN shift_msb_first(r.sr_data) ELSE s1
        s3 == IF data_load(r, p)
              THEN IF init_latch(r, p) THEN init_word(p.dataSPI) ELSE p.dataSPI
              ELSE s2
    IN  IF fsm_ce(r) THEN s3 ELSE r.sr_data

\* Variant of sr_data_next: an init transfer loads the full data latch too.
sr_data_next_full_load(r, p) ==
    LET s1 == IF before_leaving(r, p, "HOLD") THEN shift_msb_first(r.sr_data)
              ELSE r.sr_data
        s2 == IF ongoing(r, "DELAY") THEN shift_msb_first(r.sr_data) ELSE s1
        s3 == IF data_load(r, p) THEN p.dataSPI ELSE s2
    IN  IF fsm_ce(r) THEN s3 ELSE r.sr_data

sr_data_next(r, p) ==
    LET s1 == IF before_leaving(r, p, "HOLD") THEN shift_msb_first(r.sr_data)
              ELSE r.sr_data
        s2 == IF ongoing(r, "DELAY") THEN shift_msb_first(r.sr_data) ELSE s1
        s3 == IF data_load(r, p)
              THEN IF init_latch(r, p) THEN init_word(p.dataSPI) ELSE p.dataSPI
              ELSE s2
    IN  IF fsm_ce(r) THEN s3 ELSE r.sr_data

\* Variant of initialized_next: accepting a new init request re-arms the flag.
initialized_next_rearm(r, p) ==
    IF fsm_ce(r) /\ data_load(r, p) /\ p.init
    THEN FALSE
    ELSE IF /\ fsm_ce(r)
            /\ before_leaving(r, p, "BUSY_HIGH")
            /\ r.word_counter = 0
            /\ init_latch(r, p)
         THEN TRUE
         ELSE r.initialized

initialized_next(r, p) ==
    IF /\ fsm_ce(r)
       /\ before_leaving(r, p, "BUSY_HIGH")
       /\ r.word_counter = 0
       /\ init_latch(r, p)
    THEN TRUE
    ELSE r.initialized

\* The registers after one clock edge, from registers r and inputs p.
NextRegs(r, p) ==
    [state |-> state_next(r, p), bits |-> bits_next(r, p),
     word_counter |-> word_counter_next(r, p),
     sr_data |-> sr_data_next(r, p),
     clk_counter |-> clk_counter_next(r, p),
     sync_init |-> sync_init_next(r, p),
     initialized |-> initialized_next(r, p)]

\* One clock edge of the core with inputs p.
Sync(p) ==
    /\ state' = state_next(R, p)
    /\ bits' = bits_next(R, p)
    /\ word_counter' = word_counter_next(R, p)
    /\ sr_data' = sr_data_next(R, p)
    /\ clk_counter' = clk_counter_next(R, p)
    /\ sync_init' = sync_init_next(R, p)
    /\ initialized' = initialized_next(R, p)

----------------------------------------------------------------------------
\* Observers of the transfer in flight.  They record what an instrument on
\* the pins would see and are cleared when the FSM is back in IDLE.

\* The tick on which a request is accepted in IDLE.
accepted(p) == data_load(R, p) /\ fsm_ce(R)

\* A tick on which the FSM waits for the device in BUSY_LOW or BUSY_HIGH.
stalled(p) ==
    /\ fsm_ce(R)
    /\ \/ state = "BUSY_LOW" /\ p.busy
       \/ state = "BUSY_HIGH" /\ ~p.busy

Observe(p) ==
    LET back == state' = "IDLE"
        rise == ~sclk(R) /\ state' = "SETUP"
        fall == sclk(R) /\ state' # "SETUP"
        up   == ~syncr(R) /\ state' \notin {"SETUP", "HOLD", "DELAY"}
    IN  /\ mode' = IF back THEN "none"
                   ELSE IF accepted(p)
                        THEN IF ~p.init THEN "normal"
                             ELSE IF initialized THEN "reinit" ELSE "init"
                        ELSE mode
        /\ loaded' = IF back THEN 0
                     ELSE IF accepted(p) THEN p.dataSPI ELSE loaded
        /\ sent' = IF back THEN << >>
                   ELSE IF fall THEN Append(sent, sdi(R)) ELSE sent
        /\ rises' = IF back THEN 0 ELSE IF rise THEN rises + 1 ELSE rises
        /\ words' = IF back THEN 0 ELSE IF up THEN words + 1 ELSE words
        /\ paced' = IF back THEN TRUE ELSE paced /\ ~stalled(p)
        /\ ticks' = IF back \/ ~paced' THEN 0
                    ELSE IF fsm_ce(R) THEN ticks + 1 ELSE ticks
        /\ init_done' = (init_done \/ (mode = "init" /\ state # "IDLE" /\ back))
        \* system-clock cycles spent so far in the current visit to SETUP,
        \* HOLD or DELAY (0 in the states that wait for an input)
        /\ dwell' = IF state' \notin {"SETUP", "HOLD", "DELAY"} THEN 0
                    ELSE IF state' = state THEN dwell + 1 ELSE 1

----------------------------------------------------------------------------
\* The state machine.  Every action is one clock cycle: the inputs of the
\* cycle are chosen, the registers take their next values and the observers
\* follow.  start, init and busy may take any level on any cycle.  dataSPI
\* may hold any value while the core is in IDLE; while a transfer is in
\* flight the caller holds it at the value that was loaded.  The cycles are
\* split by what the core does in them: counting down the divider, or a
\* tick in one FSM state along one branch of that state's fsm.act body.
\* Only a core whose constructor returned has cycles; its parameters never
\* change.

Cycle(p) ==
    /\ Constructed(params)
    /\ Sync(p) /\ Observe(p)
    /\ UNCHANGED params

Divide ==
    /\ ~clk_cnt_done(R)
    /\ \E p \in Pins(loaded) : Cycle(p)

IdleWait ==
    /\ clk_cnt_done(R) /\ state = "IDLE"
    /\ \E d \in Data : \E p \in Pins(d) : ~(p.start \/ p.init) /\ Cycle(p)

IdleAccept ==
    /\ clk_cnt_done(R) /\ state = "IDLE"
    /\ \E d \in Data : \E p \in Pins(d) : (p.start \/ p.init) /\ Cycle(p)

Setup ==
    /\ clk_cnt_done(R) /\ state = "SETUP"
    /\ \E p \in Pins(loaded) : Cycle(p)

Hold ==
    /\ clk_cnt_done(R) /\ state = "HOLD"
    /\ \E p \in Pins(loaded) : Cycle(p)

Delay ==
    /\ clk_cnt_done(R) /\ state = "DELAY"
    /\ \E p \in Pins(loaded) : Cycle(p)

BusyLowWait ==
    /\ clk_cnt_done(R) /\ state = "BUSY_LOW"
    /\ \E p \in Pins(loaded) : p.busy /\ Cycle(p)

BusyLowGo ==
    /\ clk_cnt_done(R) /\ state = "BUSY_LOW"
    /\ \E p \in Pins(loaded) : ~p.busy /\ Cycle(p)

BusyHighWait ==
    /\ clk_cnt_done(R) /\ state = "BUSY_HIGH"
    /\ \E p \in Pins(loaded) : ~p.busy /\ Cycle(p)

BusyHighGo ==
    /\ clk_cnt_done(R) /\ state = "BUSY_HIGH"
    /\ \E p \in Pins(loaded) : p.busy /\ Cycle(p)

\* Reset values of the registers.
Init ==
    /\ params \in SPIParams
    /\ state = "IDLE"
    /\ bits = 0
    /\ word_counter = 0
    /\ sr_data = 0
    /\ clk_counter = 0
    /\ sync_init = FALSE
    /\ initialized = FALSE
    /\ mode = "none"
    /\ loaded = 0
    /\ sent = << >>
    /\ rises = 0
    /\ words = 0
    /\ ticks = 0
    /\ paced = TRUE
    /\ init_done = FALSE
    /\ dwell = 0

Next ==
    \/ Divide
    \/ IdleWait
    \/ IdleAccept
    \/ Setup
    \/ Hold
    \/ Delay
    \/ BusyLowWait
    \/ BusyLowGo
    \/ BusyHighWait
    \/ BusyHighGo

Spec == Init /\ [][Next]_vars

\* The same machine with the clock running and a responsive device: a cycle
\* that is due is taken, and while the FSM waits in BUSY_LOW (BUSY_HIGH) busy
\* eventually reads 0 (1) on some cycle.
SpecLive ==
    /\ Init /\ [][Next]_vars
    /\ WF_vars(Divide)
    /\ WF_vars(Setup)
    /\ WF_vars(Hold)
    /\ WF_vars(Delay)
    /\ WF_vars(BusyLowGo)
    /\ WF_vars(BusyHighGo)

TypeOK ==
    /\ state \in FsmStates
    /\ bits \in 0 .. (Pow2(bits_for(data_width * channels)) - 1)
    /\ word_counter \in 0 .. (Pow2(bits_for(channels)) - 1)
    /\ sr_data \in Data
    /\ params \in SPIParams
    /\ clk_counter \in 0 .. (params.clk_width - 1)
    /\ sync_init \in BOOLEAN /\ initialized \in BOOLEAN

----------------------------------------------------------------------------
\* Properties.

\* The n low bits of d, most significant first, as a sequence of 0 and 1.
BitsMsbFirst(d, n) == [k \in 1 .. n |-> (d \div Pow2(n - k)) % 2]

\* A step on which the FSM returns to IDLE: the end of a transfer.
Returns == state # "IDLE" /\ state' = "IDLE"

\* C1: in a transfer accepted with init low, the bits on serial-data-out at
\* the falling edges of serial-clock, up to the return to IDLE, are exactly
\* the channels*data_width bits of the data latch at acceptance, most
\* significant first, in channels chip-select frames of data_width bits.
C1_NormalTransferBits ==
    [][/\ (Returns /\ mode = "normal") =>
              /\ sent = BitsMsbFirst(loaded, SrWidth)
              /\ words = channels
       /\ (mode = "normal" /\ ~syncr(R) /\ syncr(R)') =>
              Len(sent) = (words + 1) * data_width
      ]_vars

C1_Witness ==
    /\ state = "BUSY_HIGH" /\ word_counter = 0 /\ mode = "normal"
    /\ loaded = 11
    /\ sent = BitsMsbFirst(11, SrWidth)

\* C2: in every transfer the number of rising edges of serial-clock equals
\* the number of bits sent, words * data_width, and serial-clock is never
\* high in two consecutive FSM states (a tick in SETUP always leaves SETUP).
C2_OnePulsePerBit ==
    [][/\ Returns => (rises = words * data_width /\ rises = Len(sent))
       /\ (sclk(R) /\ fsm_ce(R)) => ~sclk(R)'
       /\ (~syncr(R) /\ syncr(R)') => rises = (words + 1) * data_width
      ]_vars

C2_Witness ==
    /\ state = "BUSY_HIGH" /\ word_counter = 0 /\ mode = "init"
    /\ rises = data_width /\ words = 1

\* C3: chip-select stays asserted from the first SETUP of a word through
\* the DELAY after the word's last bit, is released only on leaving DELAY
\* for BUSY_LOW, and stays released throughout BUSY_LOW however long busy
\* holds the FSM there.
C3_ChipSelectFraming ==
    [][/\ state \in {"SETUP", "HOLD"} => ~syncr(R)'
       /\ state = "DELAY" =>
              /\ ~syncr(R)
              /\ Len(sent) = (words + 1) * data_width
              /\ state' \in {"DELAY", "BUSY_LOW"}
       /\ (~syncr(R) /\ syncr(R)') => (state = "DELAY" /\ state' = "BUSY_LOW")
       /\ state = "BUSY_LOW" => (syncr(R) /\ syncr(R)')
      ]_vars

C3_Witness ==
    state = "BUSY_LOW" /\ ~paced /\ words = 1 /\ syncr(R)

\* C4 as stated: ready is high iff the FSM is in IDLE and no request is
\* pending.  In IDLE a request is asserted on a cycle exactly when the FSM
\* leaves for SETUP, and it is latched and not honored when sync_init is set
\* and initialized is not.
C4_ReadyIffIdleAndNoRequest ==
    [][ready(R) <=> (/\ state = "IDLE"
                     /\ state' # "SETUP"
                     /\ ~(sync_init /\ ~initialized))]_vars

\* C4 amended: ready is high iff the FSM is in IDLE, which is iff no
\* transfer is in flight; in particular it is still high on the tick that
\* accepts a request and never high in the five transfer states.
C4_ReadyIffIdle ==
    /\ ready(R) <=> state = "IDLE"
    /\ ready(R) <=> mode = "none"
    /\ state \in {"SETUP", "HOLD", "DELAY", "BUSY_LOW", "BUSY_HIGH"} => ~ready(R)

C4_Witness ==
    state = "IDLE" /\ ready(R) /\ sync_init /\ initialized

\* C5: a transfer accepted on an init request while initialized is 0 sends
\* exactly one word of data_width bits, the lowest segment of the data latch
\* most significant bit first, and initialized goes from 0 to 1 on the tick
\* that leaves BUSY_HIGH at its end and on no other cycle of it; a transfer
\* accepted afterwards with init low sends channels words, the full latch.
C5_InitTransferOneWord ==
    [][/\ mode = "init" =>
              /\ ~initialized
              /\ initialized' <=> Returns
       /\ (Returns /\ mode = "init") =>
              /\ state = "BUSY_HIGH"
              /\ sent = BitsMsbFirst(loaded % Pow2(data_width), data_width)
              /\ words = 1
       /\ (Returns /\ mode = "normal" /\ initialized) =>
              /\ sent = BitsMsbFirst(loaded, SrWidth)
              /\ words = channels
              /\ initialized'
      ]_vars

C5_Witness ==
    /\ init_done /\ initialized
    /\ mode = "normal" /\ state = "BUSY_HIGH" /\ word_counter = 0
    /\ loaded = 13
    /\ Len(sent) = SrWidth

\* C6 as stated: initialized is high only once a one-word init transfer has
\* run from IDLE to the tick leaving BUSY_HIGH.
C6_InitializedOnlyAfterInitTransfer == initialized => init_done

\* C7: outside IDLE the level of start has no effect: from every reachable
\* state with the FSM not in IDLE, and for every init, busy and data, the
\* registers after the cycle are the same with start high and start low
\* (so are the pins, which are functions of the registers).
C7_StartIgnoredOutsideIdle ==
    state # "IDLE" =>
        \A p \in Pins(loaded) :
            NextRegs(R, p) = NextRegs(R, [p EXCEPT !.start = ~p.start])

C7_Witness ==
    mode = "normal" /\ state = "BUSY_HIGH" /\ word_counter = 1 /\ words = 1

\* C8 as stated: a normal transfer in which no BUSY_LOW and no BUSY_HIGH
\* lasts more than one tick is back in IDLE after channels*(2*data_width+3)+1
\* divider ticks, the accepting tick included.
C8_TicksPerTransferAsStated ==
    [][(Returns /\ mode = "normal" /\ paced) =>
           ticks + 1 = channels * (2 * data_width + 3) + 1]_vars

\* C8 amended: a word is data_width SETUP ticks, data_width - 1 HOLD ticks,
\* DELAY, BUSY_LOW and BUSY_HIGH, so the count is
\* channels*(2*data_width+2)+1.
C8_TicksPerTransfer ==
    [][(Returns /\ mode = "normal" /\ paced) =>
           ticks + 1 = channels * (2 * data_width + 2) + 1]_vars

C8_Witness ==
    /\ mode = "normal" /\ paced /\ state = "BUSY_HIGH" /\ word_counter = 0
    /\ ticks = channels * (2 * data_width + 2)

\* C9: initialized is sticky: no cycle takes it from 1 to 0.
C9_InitializedSticky == [][initialized => initialized']_vars

C9_Witness == initialized /\ mode = "reinit" /\ state = "DELAY"

\* C10: in BUSY_LOW a cycle on which busy reads 1 changes nothing: the FSM
\* is still in BUSY_LOW with chip-select released, serial-clock low and
\* ready low, and bits, word_counter, sr_data and initialized keep their
\* values; the divider stays at 0, so the next cycle is a tick again.
C10_BusyLowStall ==
    state = "BUSY_LOW" =>
        /\ syncr(R) /\ ~sclk(R) /\ ~ready(R) /\ clk_cnt_done(R)
        /\ \A p \in Pins(loaded) :
               p.busy =>
                   LET n == NextRegs(R, p)
                   IN  /\ n.state = "BUSY_LOW"
                       /\ n.bits = bits
                       /\ n.word_counter = word_counter
                       /\ n.sr_data = sr_data
                       /\ n.initialized = initialized
                       /\ n.clk_counter = 0
                       /\ syncr(n) /\ ~sclk(n) /\ ~ready(n)

C10_Witness == state = "BUSY_LOW" /\ ~paced /\ words = 2 /\ mode = "normal"

\* C11: with the clock running and a responsive device, every transfer
\* that leaves IDLE is eventually back in IDLE with ready high, whatever
\* the data and whatever start and init do meanwhile.
C11_TransferTerminates == (state # "IDLE") ~> (state = "IDLE" /\ ready(R))

C11_Witness == state = "BUSY_HIGH" /\ ~paced /\ word_counter = 1

\* Values of the data latch the input-independence properties are probed
\* with: the loaded value, its complement, all zeros and all ones.
Probes == {loaded, Pow2(SrWidth) - 1 - loaded, 0, Pow2(SrWidth) - 1}

\* C12: on a cycle where the divider counter is not 0, whatever start,
\* init, busy and the data latch are, the FSM state, bits, word_counter,
\* sr_data and initialized keep their values; the divider counts down by
\* one and sync_init is set iff it was set or init is asserted.
C12_GatedByTick ==
    /\ [](~clk_cnt_done(R) =>
              \A d \in Probes : \A p \in Pins(d) :
                  NextRegs(R, p) =
                      [R EXCEPT !.clk_counter = clk_counter - 1,
                                !.sync_init = sync_init \/ p.init])
    /\ [][~clk_cnt_done(R) =>
              /\ UNCHANGED <<state, bits, word_counter, sr_data, initialized>>
              /\ clk_counter' = clk_counter - 1
              /\ sync_init => sync_init'
         ]_vars

C12_Witness ==
    clk_counter # 0 /\ state = "HOLD" /\ sync_init /\ mode = "normal"

\* Every visit of a constructed core to SETUP, to HOLD and to DELAY lasts
\* exactly params.clk_width system-clock cycles: the state is entered with
\* the divider reloaded, is kept while the divider counts down and is left
\* on the tick.
DividerCadence ==
    [][/\ (state \in {"SETUP", "HOLD", "DELAY"} /\ state' # state) =>
              dwell = params.clk_width
       /\ (state \in {"SETUP", "HOLD", "DELAY"} /\ state' = state) =>
              dwell < params.clk_width
       /\ (state' \in {"SETUP", "HOLD", "DELAY"} /\ state' # state) =>
              clk_counter' = params.clk_width - 1
      ]_vars

\* C13: for every clock divisor from 1 up, the core exists and every visit
\* to SETUP, to HOLD and to DELAY lasts exactly that many system-clock
\* cycles; with clock divisor 1 the divider ticks on every cycle.
C13_CadenceForEveryDivisor ==
    /\ [](params.clk_width >= 1 => Constructed(params))
    /\ [](params.clk_width = 1 => clk_cnt_done(R))
    /\ DividerCadence

\* C14: bits stays within 0 .. data_width-1 and word_counter within
\* 0 .. channels; the FSM is in HOLD only with bits > 0 and in DELAY only
\* with word_counter > 0, so neither counter is decremented at 0.
C14_CounterRanges ==
    /\ bits \in 0 .. (data_width - 1)
    /\ word_counter \in 0 .. channels
    /\ state = "HOLD" => bits > 0
    /\ state = "DELAY" => word_counter > 0

C14_Witness ==
    state = "DELAY" /\ word_counter = 1 /\ bits = 0 /\ mode = "init"

\* C15: sr_data changes only by the load on the tick that leaves IDLE and
\* by a one-bit shift towards the MSB, 0 shifted in, on a tick leaving HOLD
\* or a tick in DELAY; on every cycle that does not accept a request the
\* next registers, hence sdi, are the same whatever the data latch holds.
C15_ShiftBufferFrame ==
    /\ [](\A d \in Probes \ {loaded} : \A p \in Pins(d) :
              ~(fsm_ce(R) /\ data_load(R, p)) =>
                  NextRegs(R, p) = NextRegs(R, [p EXCEPT !.dataSPI = loaded]))
    /\ [][/\ sr_data' # sr_data =>
                 /\ fsm_ce(R)
                 /\ \/ state = "IDLE" /\ state' = "SETUP"
                    \/ /\ state \in {"HOLD", "DELAY"}
                       /\ sr_data' = shift_msb_first(sr_data)
          /\ (fsm_ce(R) /\ state \in {"HOLD", "DELAY"}) =>
                 sr_data' = shift_msb_first(sr_data)
         ]_vars

C15_Witness ==
    mode = "normal" /\ loaded = 5 /\ state = "SETUP" /\ sr_data = 10

\* C16 as stated: on the tick that leaves IDLE the buffer gets the
\* one-word form (lowest segment in the top slot) together with a word
\* count of 1, or the full data latch together with a word count of
\* channels.
C16_LoadFormMatchesWordCount ==
    [][(state = "IDLE" /\ state' = "SETUP") =>
           \/ sr_data' = init_word(loaded') /\ word_counter' = 1
           \/ sr_data' = loaded' /\ word_counter' = channels
      ]_vars

\* C17: sdi does not change on a tick that takes serial-clock from high to
\* low (SETUP to HOLD or DELAY), nor on any cycle spent in SETUP; it changes
\* only on a tick leaving HOLD, a tick in DELAY or the load tick.
C17_DataStableAtSamplingEdge ==
    [][/\ state = "SETUP" => (sdi(R)' = sdi(R) /\ sr_data' = sr_data)
       /\ sdi(R)' # sdi(R) =>
              /\ fsm_ce(R)
              /\ \/ state \in {"HOLD", "DELAY"}
                 \/ state = "IDLE" /\ state' = "SETUP"
       /\ (state' \in {"HOLD", "DELAY"} /\ state' = state) => sdi(R)' = sdi(R)
      ]_vars

C17_Witness ==
    state = "HOLD" /\ clk_counter = 0 /\ sdi(R) = 1 /\ sent = <<1>>

\* C18: in IDLE, BUSY_LOW and BUSY_HIGH the divider counter is 0, so every
\* cycle there is a tick and the FSM acts on the input of that very cycle.
C18_DividerFrozenWhileWaiting ==
    state \in {"IDLE", "BUSY_LOW", "BUSY_HIGH"} =>
        /\ clk_counter = 0
        /\ fsm_ce(R)
        /\ \A p \in Pins(loaded) :
               /\ (state = "IDLE" /\ (p.start \/ p.init)) =>
                      NextRegs(R, p).state = "SETUP"
               /\ (state = "BUSY_LOW" /\ ~p.busy) =>
                      NextRegs(R, p).state = "BUSY_HIGH"
               /\ (state = "BUSY_HIGH" /\ p.busy) =>
                      NextRegs(R, p).state \in {"IDLE", "SETUP"}

C18_Witness == state = "BUSY_HIGH" /\ clk_counter = 0 /\ ~paced /\ words = 2

\* C19: serial-clock is high only while chip-select is asserted; chip-select
\* is asserted exactly in SETUP, HOLD and DELAY and released in IDLE,
\* BUSY_LOW and BUSY_HIGH.
C19_ClockOnlyUnderChipSelect ==
    /\ sclk(R) => ~syncr(R)
    /\ ~syncr(R) <=> state \in {"SETUP", "HOLD", "DELAY"}
    /\ state \in {"IDLE", "BUSY_LOW", "BUSY_HIGH"} => (syncr(R) /\ ~sclk(R))

C19_Witness == state = "BUSY_HIGH" /\ syncr(R) /\ words = 1 /\ mode = "init"

\* C20: whenever the FSM is in IDLE the shift buffer is all zeros and sdi
\* is 0: every transfer shifts out all it loaded.
C20_BufferEmptyInIdle == state = "IDLE" => (sr_data = 0 /\ sdi(R) = 0)

C20_Witness ==
    state = "IDLE" /\ init_done /\ sr_data = 0 /\ sdi(R) = 0

====
